---- MODULE Spec2Model ----
(***************************************************************************)
(* Session / Round control flow of ufo/module/sessions/session.py:         *)
(* SessionFactory builds Session (interactive) and FollowerSession         *)
(* (plan replay) objects; each session is driven by repeated               *)
(* create_new_round calls until one returns no round.                      *)
(*                                                                         *)
(* Paths, file names and task names are sequences of one-character         *)
(* strings, so that endswith / splitext / basename / join are computed as  *)
(* the Python library computes them.  Requests are plain strings.          *)
(***************************************************************************)
EXTENDS Integers, Sequences, FiniteSets, TLC

VARIABLES
    task,        \* create_session argument: the task name
    mode,        \* create_session argument: the mode
    plan,        \* create_session argument: the plan path
    request,     \* create_session argument: the initial request
    listing,     \* os.listdir(PlanDir): the directory's entries, in listing order
    result,      \* outcome of create_session: "pending", "returned" or the error raised
    constructed, \* number of session constructors that have started running
    sessions,    \* the list create_session returned; each element is one session object
    disk,        \* the file system record_processor.utils works on
    call         \* the record_processor.utils call made, and its outcome

vars ==
    <<task, mode, plan, request, listing, result, constructed, sessions,
      disk, call>>

\* ------------------------------------------------------------------ bounds

\* Longest directory listing explored by the factory specification.
MaxEntries == 3
\* Most create_new_round calls made on one session.
MaxCalls == 5

\* ------------------------------------------------------------- the inputs

PlanDir == <<"d">>
MissingPath == <<"m">>
Sep == "/"

NameA == <<"a", ".", "j", "s", "o", "n">>
NameB == <<"b", ".", "j", "s", "o", "n">>
NameAB == <<"a", ".", "b", ".", "j", "s", "o", "n">>
NameHidden == <<".", "j", "s", "o", "n">>
NameTxt == <<"c", ".", "t", "x", "t">>

\* Entries a plan directory may hold.
EntryPool == {NameA, NameB, NameAB, NameHidden, NameTxt}

Tasks == {<<"t">>, <<"t", "/", "u">>}
Modes == {"normal", "follower", "bogus", "Normal"}
Requests == {"", "X"}
\* What the interactive prompts may return as text.
Texts == {"", "A"}

\* All sequences of at most n distinct elements of S: the listings a directory
\* holding some of S may give, in any order.
DistinctSeqs(S, n) ==
    UNION {{q \in [1..k -> S] : \A i, j \in 1..k : i # j => q[i] # q[j]} :
           k \in 0..n}

\* ------------------------------------------------ os.path, as Python has it

\* str.endswith
endswith(f, suffix) ==
    /\ Len(f) >= Len(suffix)
    /\ SubSeq(f, Len(f) - Len(suffix) + 1, Len(f)) = suffix

\* str.rfind, 1-based; 0 when the character does not occur (Python's -1).
rfind(p, ch) ==
    LET hits == {i \in 1..Len(p) : p[i] = ch}
    IN  IF hits = {} THEN 0 ELSE CHOOSE i \in hits : \A j \in hits : j <= i

\* os.path.join(a, b) for a relative b.
join(a, b) ==
    IF a = <<>> \/ a[Len(a)] = Sep THEN a \o b ELSE a \o <<Sep>> \o b

\* os.path.basename
basename(p) == SubSeq(p, rfind(p, Sep) + 1, Len(p))

\* os.path.splitext(p)[0]: the extension starts at the last dot of the last
\* component, unless only dots precede it in that component.
splitext_root(p) ==
    LET sepIndex == rfind(p, Sep)
        dotIndex == rfind(p, ".")
    IN  IF /\ dotIndex > sepIndex
           /\ \E k \in (sepIndex + 1)..(dotIndex - 1) : p[k] # "."
        THEN SubSeq(p, 1, dotIndex - 1)
        ELSE p

\* os.path.isdir: the one directory of the modelled file system.
isdir(path) == path = PlanDir

\* Whether a file can be opened: the files are the directory's entries.
file_exists(path, ls) == \E i \in 1..Len(ls) : path = join(PlanDir, ls[i])

\* ------------------------------------------------------------- PlanReader

\* What json.load gives for each plan file: a.json and b.json hold the same
\* plan, a.b.json a one-step plan, .json a plan with no step.
PlanContent(path) ==
    LET name == basename(path)
    IN  IF name \in {NameA, NameB}
        THEN [task |-> "taskA", host_request |-> "hostA",
              initial_request |-> "initA", steps |-> <<"s1", "s2">>]
        ELSE IF name = NameAB
        THEN [task |-> "taskAB", host_request |-> "hostAB",
              initial_request |-> "initAB", steps |-> <<"s3">>]
        ELSE [task |-> "task0", host_request |-> "host0",
              initial_request |-> "init0", steps |-> <<>>]

\* The reader an interactive Session does not have.
NoPlanReader ==
    [plan_file |-> <<>>, cursor |-> 0,
     content |-> [task |-> "", host_request |-> "", initial_request |-> "",
                  steps |-> <<>>]]

\* PlanReader(plan_file): the plan, and a cursor before its first step.
PlanReader(plan_file) ==
    [plan_file |-> plan_file, cursor |-> 0, content |-> PlanContent(plan_file)]

\* PlanReader.task_finished
task_finished(pr) == pr.cursor >= Len(pr.content.steps)

\* PlanReader.get_host_agent_request
get_host_agent_request(pr) == pr.content.host_request

\* PlanReader.get_initial_request
get_initial_request(pr) == pr.content.initial_request

\* PlanReader.get_task
get_task(pr) == pr.content.task

\* PlanReader.next_step: the step under the cursor, and the reader advanced.
next_step(pr) ==
    [ret |-> pr.content.steps[pr.cursor + 1],
     pr |-> [pr EXCEPT !.cursor = @ + 1]]

\* ----------------------------------------------------- agents and rounds

HostAgent == "host"
AppAgents == {"app1", "app2"}
Agents == {HostAgent} \cup AppAgents
NoAgent == "none"

\* An agent as the sessions see it: its state tag, and whether its memory
\* and the request history of its blackboard hold anything.
NewAgent == [state |-> "init", memory |-> "empty", requests |-> "empty"]

\* What create_new_round returns when the session is finished (None).
NoRound == [id |-> -1, request |-> "", agent |-> NoAgent, status |-> "none"]

\* BaseRound(request, agent, context, should_evaluate, id)
BaseRound(req, agent, id) ==
    [id |-> id, request |-> req, agent |-> agent, status |-> "created"]

\* ------------------------------------------------------------ BaseSession

\* BaseSession.__init__, with the fields the two subclasses add.
BaseSession(kind, t, id, init_request, plan_reader) ==
    [kind |-> kind, task |-> t, id |-> id,
     init_request |-> init_request, plan_reader |-> plan_reader,
     finish |-> FALSE, total_rounds |-> 0, rounds |-> <<>>,
     agents |-> [a \in Agents |-> NewAgent], active_appagent |-> NoAgent,
     \* the position of run(), then what has been observed so far: the
     \* create_new_round calls made, what the last one returned and got from
     \* next_request, the ids registered, the prompts made and answered
     pc |-> "loop", calls |-> 0, returned |-> "nothing", created |-> <<>>,
     requested |-> "", first_request_calls |-> 0, first_request_value |-> "",
     complete_seen |-> FALSE,
     experience_asks |-> 0, experience_answer |-> FALSE,
     experience_saved |-> FALSE]

\* BaseSession.is_finished
is_finished(s) == s.finish

\* BaseSession.add_round: register the round under its id.
add_round(s, id, round) ==
    [s EXCEPT !.rounds = [i \in DOMAIN s.rounds \cup {id} |->
                            IF i = id THEN round ELSE s.rounds[i]],
              !.total_rounds = @ + 1,
              !.created = Append(@, id)]

\* agent.set_state(tag)
set_state(s, agent, tag) == [s EXCEPT !.agents[agent].state = tag]

\* agent.clear_memory()
clear_memory(s, agent) == [s EXCEPT !.agents[agent].memory = "empty"]

\* agent.blackboard.requests.clear()
requests_clear(s, agent) == [s EXCEPT !.agents[agent].requests = "empty"]

\* ---------------------------------------------------------------- Session

\* Session.__init__
Session(t, id, req) == BaseSession("Session", t, id, req, NoPlanReader)

\* Session.next_request with the bug of assigning the prompt's flag to
\* _finish, so that a later answer of "not complete" clears it.
Session_next_request_AssignFlag(s, in) ==
    IF s.total_rounds = 0
    THEN IF s.init_request # ""
         THEN [ret |-> s.init_request, s |-> s]
         ELSE [ret |-> in.first,
               s |-> [s EXCEPT !.first_request_calls = @ + 1,
                               !.first_request_value = in.first]]
    ELSE [ret |-> in.text,
          s |-> [s EXCEPT !.finish = in.iscomplete,
                          !.complete_seen = @ \/ in.iscomplete]]

\* Session.next_request with the bug of prompting for the first request even
\* when one was given to the constructor.
Session_next_request_AlwaysPrompt(s, in) ==
    IF s.total_rounds = 0
    THEN [ret |-> in.first,
          s |-> [s EXCEPT !.first_request_calls = @ + 1,
                          !.first_request_value = in.first]]
    ELSE [ret |-> in.text,
          s |-> [s EXCEPT !.finish = IF in.iscomplete THEN TRUE ELSE @,
                          !.complete_seen = @ \/ in.iscomplete]]

\* Session.next_request with the bug of testing the initial request before
\* the round number, so that a session without one prompts for a first
\* request in every round.
Session_next_request_PromptEveryRound(s, in) ==
    IF s.init_request = ""
    THEN [ret |-> in.first,
          s |-> [s EXCEPT !.first_request_calls = @ + 1,
                          !.first_request_value = in.first]]
    ELSE IF s.total_rounds = 0
    THEN [ret |-> s.init_request, s |-> s]
    ELSE [ret |-> in.text,
          s |-> [s EXCEPT !.finish = IF in.iscomplete THEN TRUE ELSE @,
                          !.complete_seen = @ \/ in.iscomplete]]

\* Session.next_request with the bug of using the continuation prompt for
\* round 0 when no initial request was given.
Session_next_request_ContinuationFirst(s, in) ==
    IF s.total_rounds = 0 /\ s.init_request # ""
    THEN [ret |-> s.init_request, s |-> s]
    ELSE [ret |-> in.text,
          s |-> [s EXCEPT !.finish = IF in.iscomplete THEN TRUE ELSE @,
                          !.complete_seen = @ \/ in.iscomplete]]

\* Session.next_request; in holds what the prompts would return.
Session_next_request(s, in) ==
    IF s.total_rounds = 0
    THEN IF s.init_request # ""
         THEN [ret |-> s.init_request, s |-> s]
         ELSE [ret |-> in.first,
               s |-> [s EXCEPT !.first_request_calls = @ + 1,
                               !.first_request_value = in.first]]
    ELSE [ret |-> in.text,
          s |-> [s EXCEPT !.finish = IF in.iscomplete THEN TRUE ELSE @,
                          !.complete_seen = @ \/ in.iscomplete]]

\* Session.create_new_round with the bug of not returning early when the
\* session is finished.
Session_create_new_round_NoFinishCheck(s, in) ==
    LET nr == Session_next_request(s, in)
        s2 == set_state(nr.s, HostAgent, "ContinueHostAgentState")
        round == BaseRound(nr.ret, HostAgent, s2.total_rounds)
    IN  [ret |-> round, request |-> nr.ret,
         s |-> add_round(s2, round.id, round)]

\* Session.create_new_round with the bug of tagging the host agent before
\* looking at whether the session is finished.
Session_create_new_round_TagFirst(s, in) ==
    LET nr == Session_next_request(s, in)
        s1 == set_state(nr.s, HostAgent, "ContinueHostAgentState")
    IN  IF is_finished(s1)
        THEN [ret |-> NoRound, request |-> nr.ret, s |-> s1]
        ELSE LET round == BaseRound(nr.ret, HostAgent, s1.total_rounds)
             IN  [ret |-> round, request |-> nr.ret,
                  s |-> add_round(s1, round.id, round)]

\* Session.create_new_round with the bug of not tagging the host agent.
Session_create_new_round_NoTag(s, in) ==
    LET nr == Session_next_request(s, in)
        s1 == nr.s
    IN  IF is_finished(s1)
        THEN [ret |-> NoRound, request |-> nr.ret, s |-> s1]
        ELSE LET round == BaseRound(nr.ret, HostAgent, s1.total_rounds)
             IN  [ret |-> round, request |-> nr.ret,
                  s |-> add_round(s1, round.id, round)]

\* Session.create_new_round
Session_create_new_round(s, in) ==
    LET nr == Session_next_request(s, in)
        s1 == nr.s
    IN  IF is_finished(s1)
        THEN [ret |-> NoRound, request |-> nr.ret, s |-> s1]
        ELSE LET s2 == set_state(s1, HostAgent, "ContinueHostAgentState")
                 round == BaseRound(nr.ret, HostAgent, s2.total_rounds)
             IN  [ret |-> round, request |-> nr.ret,
                  s |-> add_round(s2, round.id, round)]

\* -------------------------------------------------------- FollowerSession

\* FollowerSession.__init__
FollowerSession(t, plan_file, id) ==
    BaseSession("FollowerSession", t, id, "", PlanReader(plan_file))

\* FollowerSession.next_request with the bug of serving round 0 before
\* asking the plan whether it is finished.
FollowerSession_next_request_HostFirst(s) ==
    IF s.total_rounds = 0
    THEN [ret |-> get_host_agent_request(s.plan_reader), s |-> s]
    ELSE IF task_finished(s.plan_reader)
    THEN [ret |-> "", s |-> [s EXCEPT !.finish = TRUE]]
    ELSE LET ns == next_step(s.plan_reader)
         IN  [ret |-> ns.ret, s |-> [s EXCEPT !.plan_reader = ns.pr]]

\* FollowerSession.next_request with the bug of serving the last step again
\* when the round that ran it failed.
FollowerSession_next_request_RetryFailed(s) ==
    IF task_finished(s.plan_reader)
    THEN [ret |-> "", s |-> [s EXCEPT !.finish = TRUE]]
    ELSE IF s.total_rounds = 0
    THEN [ret |-> get_host_agent_request(s.plan_reader), s |-> s]
    ELSE IF /\ s.plan_reader.cursor >= 1
            /\ (s.total_rounds - 1) \in DOMAIN s.rounds
            /\ s.rounds[s.total_rounds - 1].status = "failed"
    THEN [ret |-> s.plan_reader.content.steps[s.plan_reader.cursor], s |-> s]
    ELSE LET ns == next_step(s.plan_reader)
         IN  [ret |-> ns.ret, s |-> [s EXCEPT !.plan_reader = ns.pr]]

\* FollowerSession.next_request with the bug of taking a step off the plan
\* for round 0 as well.
FollowerSession_next_request_ConsumeAtZero(s) ==
    IF task_finished(s.plan_reader)
    THEN [ret |-> "", s |-> [s EXCEPT !.finish = TRUE]]
    ELSE LET ns == next_step(s.plan_reader)
         IN  [ret |-> IF s.total_rounds = 0
                      THEN get_host_agent_request(s.plan_reader) ELSE ns.ret,
              s |-> [s EXCEPT !.plan_reader = ns.pr]]

\* FollowerSession.next_request
FollowerSession_next_request(s) ==
    IF task_finished(s.plan_reader)
    THEN [ret |-> "", s |-> [s EXCEPT !.finish = TRUE]]
    ELSE IF s.total_rounds = 0
    THEN [ret |-> get_host_agent_request(s.plan_reader), s |-> s]
    ELSE LET ns == next_step(s.plan_reader)
         IN  [ret |-> ns.ret, s |-> [s EXCEPT !.plan_reader = ns.pr]]

\* FollowerSession.create_new_round with the bug of not returning early when
\* the session is finished.
FollowerSession_create_new_round_NoFinishCheck(s) ==
    LET nr == FollowerSession_next_request(s)
        s1 == nr.s
        agent == IF s1.total_rounds = 0 THEN HostAgent ELSE s1.active_appagent
        s2 == IF s1.total_rounds = 0 THEN s1
              ELSE set_state(requests_clear(clear_memory(s1, agent), agent),
                             agent, "ContinueAppAgentState")
        round == BaseRound(nr.ret, agent, s2.total_rounds)
    IN  [ret |-> round, request |-> nr.ret,
         s |-> add_round(s2, round.id, round)]

\* FollowerSession.create_new_round with the bug of not clearing the request
\* history of the app agent's blackboard.
FollowerSession_create_new_round_KeepRequests(s) ==
    LET nr == FollowerSession_next_request(s)
        s1 == nr.s
    IN  IF is_finished(s1)
        THEN [ret |-> NoRound, request |-> nr.ret, s |-> s1]
        ELSE LET agent == IF s1.total_rounds = 0 THEN HostAgent
                          ELSE s1.active_appagent
                 s2 == IF s1.total_rounds = 0 THEN s1
                       ELSE set_state(clear_memory(s1, agent),
                                      agent, "ContinueAppAgentState")
                 round == BaseRound(nr.ret, agent, s2.total_rounds)
             IN  [ret |-> round, request |-> nr.ret,
                  s |-> add_round(s2, round.id, round)]

\* FollowerSession.create_new_round with the bug of testing is_finished the
\* wrong way round.
FollowerSession_create_new_round_InvertedCheck(s) ==
    LET nr == FollowerSession_next_request(s)
        s1 == nr.s
    IN  IF ~is_finished(s1)
        THEN [ret |-> NoRound, request |-> nr.ret, s |-> s1]
        ELSE LET agent == IF s1.total_rounds = 0 THEN HostAgent
                          ELSE s1.active_appagent
                 s2 == IF s1.total_rounds = 0 THEN s1
                       ELSE set_state(
                                requests_clear(clear_memory(s1, agent), agent),
                                agent, "ContinueAppAgentState")
                 round == BaseRound(nr.ret, agent, s2.total_rounds)
             IN  [ret |-> round, request |-> nr.ret,
                  s |-> add_round(s2, round.id, round)]

\* FollowerSession.create_new_round with the bug of numbering rounds from 1.
FollowerSession_create_new_round_OneBased(s) ==
    LET nr == FollowerSession_next_request(s)
        s1 == nr.s
    IN  IF is_finished(s1)
        THEN [ret |-> NoRound, request |-> nr.ret, s |-> s1]
        ELSE LET agent == IF s1.total_rounds = 0 THEN HostAgent
                          ELSE s1.active_appagent
                 s2 == IF s1.total_rounds = 0 THEN s1
                       ELSE set_state(
                                requests_clear(clear_memory(s1, agent), agent),
                                agent, "ContinueAppAgentState")
                 round == BaseRound(nr.ret, agent, s2.total_rounds + 1)
             IN  [ret |-> round, request |-> nr.ret,
                  s |-> add_round(s2, round.id, round)]

\* FollowerSession.create_new_round
FollowerSession_create_new_round(s) ==
    LET nr == FollowerSession_next_request(s)
        s1 == nr.s
    IN  IF is_finished(s1)
        THEN [ret |-> NoRound, request |-> nr.ret, s |-> s1]
        ELSE LET agent == IF s1.total_rounds = 0 THEN HostAgent
                          ELSE s1.active_appagent
                 s2 == IF s1.total_rounds = 0 THEN s1
                       ELSE set_state(
                                requests_clear(clear_memory(s1, agent), agent),
                                agent, "ContinueAppAgentState")
                 round == BaseRound(nr.ret, agent, s2.total_rounds)
             IN  [ret |-> round, request |-> nr.ret,
                  s |-> add_round(s2, round.id, round)]

\* create_new_round of whichever class the session is.
create_new_round(s, in) ==
    IF s.kind = "Session" THEN Session_create_new_round(s, in)
    ELSE FollowerSession_create_new_round(s)

\* --------------------------------------------------------- SessionFactory

JsonSuffix == <<".", "j", "s", "o", "n">>

\* SessionFactory.is_folder
is_folder(path) == isdir(path)

\* SessionFactory.get_plan_files: the .json entries, joined to the folder.
get_plan_files(path, ls) ==
    LET IsPlan(f) == endswith(f, JsonSuffix)
        kept == SelectSeq(ls, IsPlan)
    IN  [i \in 1..Len(kept) |-> join(path, kept[i])]

\* SessionFactory.get_file_name_without_extension
get_file_name_without_extension(file_path) == splitext_root(basename(file_path))

\* SessionFactory.create_follower_session_in_batch with the bug of taking a
\* session's id from its entry's position in the whole listing.
create_follower_session_in_batch_RawPosition(t, p, ls) ==
    LET plan_files == get_plan_files(p, ls)
        file_names == [i \in 1..Len(plan_files) |->
                          get_file_name_without_extension(plan_files[i])]
        position(f) == CHOOSE j \in 1..Len(ls) : join(p, ls[j]) = f
    IN  [i \in 1..Len(plan_files) |->
            FollowerSession(t \o <<"/">> \o file_names[i], plan_files[i],
                            position(plan_files[i]) - 1)]

\* SessionFactory.create_follower_session_in_batch
create_follower_session_in_batch(t, p, ls) ==
    LET plan_files == get_plan_files(p, ls)
        file_names == [i \in 1..Len(plan_files) |->
                          get_file_name_without_extension(plan_files[i])]
    IN  [i \in 1..Len(plan_files) |->
            FollowerSession(t \o <<"/">> \o file_names[i], plan_files[i], i - 1)]

NoError == [type |-> "none", mode |-> ""]

\* SessionFactory.create_session with the bug of treating every mode but
\* "follower" as "normal".
create_session_DefaultNormal(t, m, p, req, ls) ==
    IF m = "follower"
    THEN IF is_folder(p)
         THEN LET batch == create_follower_session_in_batch(t, p, ls)
              IN  [status |-> "returned", error |-> NoError,
                   constructed |-> Len(batch), sessions |-> batch]
         ELSE IF file_exists(p, ls)
         THEN [status |-> "returned", error |-> NoError, constructed |-> 1,
               sessions |-> <<FollowerSession(t, p, 0)>>]
         ELSE [status |-> "raised", constructed |-> 1, sessions |-> <<>>,
               error |-> [type |-> "FileNotFoundError", mode |-> ""]]
    ELSE [status |-> "returned", error |-> NoError, constructed |-> 1,
          sessions |-> <<Session(t, 0, req)>>]

\* SessionFactory.create_session with the bug of naming the session of a
\* single plan file as the batch names its sessions.
create_session_SubTaskName(t, m, p, req, ls) ==
    IF m = "normal"
    THEN [status |-> "returned", error |-> NoError, constructed |-> 1,
          sessions |-> <<Session(t, 0, req)>>]
    ELSE IF m = "follower"
    THEN IF is_folder(p)
         THEN LET batch == create_follower_session_in_batch(t, p, ls)
              IN  [status |-> "returned", error |-> NoError,
                   constructed |-> Len(batch), sessions |-> batch]
         ELSE IF file_exists(p, ls)
         THEN [status |-> "returned", error |-> NoError, constructed |-> 1,
               sessions |-> <<FollowerSession(
                   t \o <<"/">> \o get_file_name_without_extension(p), p, 0)>>]
         ELSE [status |-> "raised", constructed |-> 1, sessions |-> <<>>,
               error |-> [type |-> "FileNotFoundError", mode |-> ""]]
    ELSE [status |-> "raised", constructed |-> 0, sessions |-> <<>>,
          error |-> [type |-> "ValueError", mode |-> m]]

\* SessionFactory.create_session: what it returns or raises, and how many
\* session constructors ran.
create_session(t, m, p, req, ls) ==
    IF m = "normal"
    THEN [status |-> "returned", error |-> NoError, constructed |-> 1,
          sessions |-> <<Session(t, 0, req)>>]
    ELSE IF m = "follower"
    THEN IF is_folder(p)
         THEN LET batch == create_follower_session_in_batch(t, p, ls)
              IN  [status |-> "returned", error |-> NoError,
                   constructed |-> Len(batch), sessions |-> batch]
         ELSE IF file_exists(p, ls)
         THEN [status |-> "returned", error |-> NoError, constructed |-> 1,
               sessions |-> <<FollowerSession(t, p, 0)>>]
         ELSE [status |-> "raised", constructed |-> 1, sessions |-> <<>>,
               error |-> [type |-> "FileNotFoundError", mode |-> ""]]
    ELSE [status |-> "raised", constructed |-> 0, sessions |-> <<>>,
          error |-> [type |-> "ValueError", mode |-> m]]

\* ------------------------------------------------- record_processor.utils

\* A file system: the directories that exist and the files with their
\* contents, by path relative to the working directory.  The working
\* directory itself is the empty path and is not listed in dirs.
NoDisk == [dirs |-> {}, files |-> <<>>]

\* No utility call has been made.
NoCall == [op |-> "none", status |-> "idle"]

\* os.path.dirname: everything before the last separator, trailing
\* separators stripped unless nothing else is left.
dirname(p) ==
    LET head == SubSeq(p, 1, rfind(p, Sep))
        keep == {k \in 1..Len(head) : head[k] # Sep}
    IN  IF keep = {} THEN head
        ELSE SubSeq(head, 1, CHOOSE k \in keep : \A j \in keep : j <= k)

\* os.path.exists; the empty path names nothing.
exists(d, p) == p \in d.dirs \/ p \in DOMAIN d.files

\* The path and every leading part of it that ends before a separator.
Ancestors(p) ==
    {SubSeq(p, 1, k - 1) : k \in {j \in 2..Len(p) : p[j] = Sep}} \cup {p}

\* The outcome of the statements a utility has executed so far: the
\* exception raised ("none" while none was), the file system, and the value
\* computed last.  A statement executed after an exception was raised does
\* nothing: the exception has ended the function.
Started(d) == [error |-> "none", disk |-> d, value |-> <<>>]
Raise(st, e) == [st EXCEPT !.error = e]

\* os.makedirs(p): creates p and the missing directories above it.
makedirs(st, p) ==
    IF st.error # "none" THEN st
    ELSE IF p = <<>> THEN Raise(st, "FileNotFoundError")
    ELSE IF exists(st.disk, p) THEN Raise(st, "FileExistsError")
    ELSE IF \E a \in Ancestors(p) : a \in DOMAIN st.disk.files
    THEN Raise(st, "NotADirectoryError")
    ELSE [st EXCEPT !.disk.dirs = @ \cup Ancestors(p)]

\* if not os.path.exists(p): os.makedirs(p)
makedirs_unless_exists(st, p) ==
    IF st.error = "none" /\ ~exists(st.disk, p) THEN makedirs(st, p) ELSE st

\* The files of f with path holding content.
WriteFile(f, path, content) ==
    [p \in DOMAIN f \cup {path} |-> IF p = path THEN content ELSE f[p]]

\* open(path, 'w') followed by writing content and closing.
open_write(st, path, content) ==
    IF st.error # "none" THEN st
    ELSE IF path \in st.disk.dirs THEN Raise(st, "IsADirectoryError")
    ELSE IF dirname(path) # <<>> /\ dirname(path) \notin st.disk.dirs
    THEN Raise(st, IF dirname(path) \in DOMAIN st.disk.files
                   THEN "NotADirectoryError" ELSE "FileNotFoundError")
    ELSE [st EXCEPT !.disk.files = WriteFile(@, path, content)]

\* Python values, each tagged by its type: [int |-> n], [str |-> s],
\* [list |-> <<v, ...>>], [tuple |-> <<v, ...>>] and
\* [dict |-> <<[key |-> k, value |-> v], ...>>] in insertion order.
\* JSON documents: [number |-> n], [string |-> s], [array |-> <<...>>] and
\* [object |-> <<[name |-> s, value |-> j], ...>>].  The layout that
\* indent=4 gives the text carries no value and is left out.

\* The member name json.dump writes for a dict key: a str as it is, an int
\* as its decimal text.
key_name(k) == IF "str" \in DOMAIN k THEN k.str ELSE ToString(k.int)

RECURSIVE json_dump(_)
\* json.dump: the document written for a Python value.
json_dump(v) ==
    CASE "int" \in DOMAIN v -> [number |-> v.int]
      [] "str" \in DOMAIN v -> [string |-> v.str]
      [] "list" \in DOMAIN v ->
            [array |-> [i \in 1..Len(v.list) |-> json_dump(v.list[i])]]
      [] "tuple" \in DOMAIN v ->
            [array |-> [i \in 1..Len(v.tuple) |-> json_dump(v.tuple[i])]]
      [] "dict" \in DOMAIN v ->
            [object |-> [i \in 1..Len(v.dict) |->
                            [name |-> key_name(v.dict[i].key),
                             value |-> json_dump(v.dict[i].value)]]]

RECURSIVE json_load(_)
\* json.load: the Python value read from a document.
json_load(j) ==
    CASE "number" \in DOMAIN j -> [int |-> j.number]
      [] "string" \in DOMAIN j -> [str |-> j.string]
      [] "array" \in DOMAIN j ->
            [list |-> [i \in 1..Len(j.array) |-> json_load(j.array[i])]]
      [] "object" \in DOMAIN j ->
            [dict |-> [i \in 1..Len(j.object) |->
                          [key |-> [str |-> j.object[i].name],
                           value |-> json_load(j.object[i].value)]]]

\* save_to_json(data, output_file_path)
save_to_json(st, data, output_file_path) ==
    LET directory == dirname(output_file_path)
    IN  open_write(makedirs_unless_exists(st, directory), output_file_path,
                   [document |-> json_dump(data)])

\* The two line-ending characters.
CR == "\r"
LF == "\n"

RECURSIVE universal_newlines(_)
\* What a file opened with open(path, 'r') gives for the text stored in it:
\* each CR LF pair and each lone CR is read as one LF.
universal_newlines(t) ==
    IF t = <<>> THEN <<>>
    ELSE IF t[1] = CR
    THEN IF Len(t) > 1 /\ t[2] = LF
         THEN <<LF>> \o universal_newlines(SubSeq(t, 3, Len(t)))
         ELSE <<LF>> \o universal_newlines(Tail(t))
    ELSE <<t[1]>> \o universal_newlines(Tail(t))

\* ZipFile(zip_file_path, 'r'): the archive must be there and be one.
ZipFile(st, zip_file_path) ==
    IF st.error # "none" THEN st
    ELSE IF zip_file_path \notin DOMAIN st.disk.files
    THEN Raise(st, "FileNotFoundError")
    ELSE IF "members" \notin DOMAIN st.disk.files[zip_file_path]
    THEN Raise(st, "BadZipFile")
    ELSE st

\* ZipFile.extract(member, folder): the member is written under folder, the
\* directories above it created when missing, a file already there replaced.
extract(st, folder, member) ==
    LET target == join(folder, member.name)
    IN  open_write(makedirs_unless_exists(st, dirname(target)), target,
                   [text |-> member.content])

RECURSIVE extractall(_, _, _)
\* ZipFile.extractall(folder): the members are extracted in turn.
extractall(st, folder, members) ==
    IF st.error # "none" \/ members = <<>> THEN st
    ELSE extractall(extract(st, folder, Head(members)), folder, Tail(members))

\* The members of the archive opened.
namelist(st, zip_file_path) ==
    IF st.error # "none" THEN <<>> ELSE st.disk.files[zip_file_path].members

\* The names of the entries of a directory.
Children(d, folder) ==
    {basename(p) : p \in {q \in d.dirs \cup DOMAIN d.files : dirname(q) = folder}}

\* os.listdir(folder): the entries, in an order the file system chooses.
listdir(d, folder) ==
    LET entries == Children(d, folder)
    IN  {q \in [1..Cardinality(entries) -> entries] :
            \A i, j \in DOMAIN q : i # j => q[i] # q[j]}

\* unzip_file up to and including extractall.
unzip_file_extract(st, zip_file_path) ==
    LET folder_name == splitext_root(zip_file_path)
        opened == ZipFile(makedirs_unless_exists(st, folder_name), zip_file_path)
    IN  extractall(opened, folder_name, namelist(opened, zip_file_path))

\* os.path.join(folder_name, os.listdir(folder_name)[0]), listed being what
\* os.listdir returned.
first_listed(st, folder_name, listed) ==
    IF st.error # "none" THEN st
    ELSE IF listed = <<>> THEN Raise(st, "IndexError")
    ELSE [st EXCEPT !.value = join(folder_name, listed[1])]

\* unzip_file(zip_file_path), listed being what os.listdir returns to it.
unzip_file(st, zip_file_path, listed) ==
    first_listed(unzip_file_extract(st, zip_file_path),
                 splitext_root(zip_file_path), listed)

\* open(extracted_file, 'r', encoding='utf-8') and file.read()
read_text(st) ==
    IF st.error # "none" THEN st
    ELSE IF st.value \in st.disk.dirs THEN Raise(st, "IsADirectoryError")
    ELSE [st EXCEPT !.value = universal_newlines(st.disk.files[st.value].text)]

\* unzip_and_read_file(file_path), listed being what os.listdir returns.
unzip_and_read_file(st, file_path, listed) ==
    read_text(unzip_file(st, file_path, listed))

\* ---------------------------------------------------------------- actions

\* Plan arguments: the folder, a path that does not exist, and plan files.
PlanArgs ==
    {PlanDir, MissingPath, join(PlanDir, NameA), join(PlanDir, NameAB),
     join(PlanDir, NameHidden)}

\* What interactor.first_request and interactor.new_request may return.
PromptReturns == [first : Texts, text : Texts, iscomplete : BOOLEAN]

Pending == [status |-> "pending", error |-> NoError]

\* The state before create_session is called with one of the given
\* argument tuples, the folder listing as the tuple says.
InitWith(arguments) ==
    /\ \E a \in arguments :
          /\ task = a.task
          /\ mode = a.mode
          /\ plan = a.plan
          /\ request = a.request
          /\ listing = a.listing
    /\ result = Pending
    /\ constructed = 0
    /\ sessions = <<>>
    /\ disk = NoDisk
    /\ call = NoCall

\* The caller invokes SessionFactory.create_session once.
CreateSession ==
    /\ result = Pending
    /\ LET r == create_session(task, mode, plan, request, listing)
       IN  /\ result' = [status |-> r.status, error |-> r.error]
           /\ constructed' = r.constructed
           /\ sessions' = r.sessions
    /\ UNCHANGED <<task, mode, plan, request, listing, disk, call>>

\* Where run() goes once its loop is over: Session.run asks about the
\* experience, FollowerSession inherits a run that just returns.
AfterLoop(s) == IF s.kind = "Session" THEN "ask" ELSE "done"

\* The session after one create_new_round call that returned r.ret, having
\* got r.request from next_request.
Called(r, pc) ==
    [r.s EXCEPT !.calls = @ + 1,
                !.requested = r.request,
                !.returned = IF r.ret = NoRound THEN "None" ELSE "round",
                !.pc = pc]

\* One iteration of the loop of BaseSession.run: stop if finished, else
\* create a round and, unless there is none, go on to run it.
RunLoop(i) ==
    LET s == sessions[i]
    IN  /\ s.pc = "loop"
        /\ s.calls < MaxCalls
        /\ IF is_finished(s)
           THEN sessions' = [sessions EXCEPT ![i].pc = AfterLoop(s)]
           ELSE \E in \in PromptReturns :
                   LET r == create_new_round(s, in)
                   IN  sessions' =
                           [sessions EXCEPT ![i] =
                               Called(r, IF r.ret = NoRound THEN AfterLoop(s)
                                         ELSE "run")]
        /\ UNCHANGED <<task, mode, plan, request, listing, result, constructed, disk, call>>

\* The round the loop of run() holds: the one created last.
CurrentRound(s) == s.created[Len(s.created)]

\* BaseRound.run starts.
RoundRunBegin(i) ==
    LET s == sessions[i]
    IN  /\ s.pc = "run"
        /\ sessions' = [sessions EXCEPT
               ![i].rounds[CurrentRound(s)].status = "running",
               ![i].pc = "running"]
        /\ UNCHANGED <<task, mode, plan, request, listing, result, constructed, disk, call>>

\* BaseRound.run returns, having succeeded or failed; the agent it ran has
\* used its memory and blackboard, and some app agent is the active one.
RoundRunEnd(i, outcome, app) ==
    LET s == sessions[i]
        agent == s.rounds[CurrentRound(s)].agent
    IN  /\ s.pc = "running"
        /\ sessions' = [sessions EXCEPT
               ![i].rounds[CurrentRound(s)].status = outcome,
               ![i].agents[agent] =
                   [state |-> IF outcome = "ok" THEN "FINISH" ELSE "ERROR",
                    memory |-> "nonempty", requests |-> "nonempty"],
               ![i].active_appagent = app,
               ![i].pc = "loop"]
        /\ UNCHANGED <<task, mode, plan, request, listing, result, constructed, disk, call>>

\* Session.run after the loop, with the bug of saving the experience
\* whatever the user answered.
Session_run_AlwaysSave(s, answer) ==
    [s EXCEPT !.experience_asks = @ + 1,
              !.experience_answer = answer,
              !.experience_saved = TRUE,
              !.pc = "done"]

\* Session.run after the loop of super().run(): ask whether to save the
\* experience, call experience_saver if the answer is yes, and return.
Session_run(s, answer) ==
    [s EXCEPT !.experience_asks = @ + 1,
              !.experience_answer = answer,
              !.experience_saved = IF answer THEN TRUE ELSE @,
              !.pc = "done"]

\* The end of Session.run: interactor.experience_asker, then the saver.
ExperienceAsk(i, answer) ==
    LET s == sessions[i]
    IN  /\ s.pc = "ask"
        /\ sessions' = [sessions EXCEPT ![i] = Session_run(s, answer)]
        /\ UNCHANGED <<task, mode, plan, request, listing, result, constructed, disk, call>>

\* A caller invokes create_new_round again after run() has returned.
DirectCall(i) ==
    LET s == sessions[i]
    IN  /\ s.pc = "done"
        /\ s.calls < MaxCalls
        /\ \E in \in PromptReturns :
               sessions' = [sessions EXCEPT ![i] =
                               Called(create_new_round(s, in), "done")]
        /\ UNCHANGED <<task, mode, plan, request, listing, result, constructed, disk, call>>

\* --------------------------------------------------------- specifications

\* Listings under which the sessions are driven: two files with the same
\* plan, a one-step plan beside a file that is no plan, and an empty plan.
DriveListings ==
    {<<NameA, NameB>>, <<NameTxt, NameAB>>, <<NameHidden>>}

\* The calls whose sessions are driven: interactive ones with and without
\* an initial request, replays of one plan file or of a folder, and a call
\* that fails.
DriveArguments ==
    [task : {<<"t">>}, mode : {"normal"}, plan : {PlanDir},
     request : Requests, listing : {<<>>}]
    \cup [task : {<<"t">>}, mode : {"follower"}, plan : PlanArgs,
          request : {""}, listing : DriveListings]
    \cup [task : {<<"t">>}, mode : {"bogus"}, plan : {PlanDir},
          request : {""}, listing : {<<>>}]

Init == InitWith(DriveArguments)

Next ==
    \/ CreateSession
    \/ \E i \in DOMAIN sessions : RunLoop(i)
    \/ \E i \in DOMAIN sessions : RoundRunBegin(i)
    \/ \E i \in DOMAIN sessions, outcome \in {"ok", "failed"}, app \in AppAgents :
          RoundRunEnd(i, outcome, app)
    \/ \E i \in DOMAIN sessions, answer \in BOOLEAN : ExperienceAsk(i, answer)
    \/ \E i \in DOMAIN sessions : DirectCall(i)

\* The factory call followed by the driving of the sessions it returned.
Spec == Init /\ [][Next]_vars

\* Listings under which replays are driven to their ends: the two-step
\* plan alone, the one-step plan beside the plan with no step, and a folder
\* without a plan.
FollowerListings == {<<NameA>>, <<NameAB, NameHidden>>, <<NameTxt>>}

\* The replay calls: of the folder, of one plan file, of a missing path.
FollowerArguments ==
    [task : {<<"t">>}, mode : {"follower"}, plan : PlanArgs,
     request : {""}, listing : FollowerListings]

InitFollower == InitWith(FollowerArguments)

NextFollower ==
    \/ CreateSession
    \/ \E i \in DOMAIN sessions : RunLoop(i)
    \/ \E i \in DOMAIN sessions : RoundRunBegin(i)
    \/ \E i \in DOMAIN sessions, outcome \in {"ok", "failed"}, app \in AppAgents :
          RoundRunEnd(i, outcome, app)

\* The driver goes on while it can: the factory call returns, run() takes
\* its next loop iteration, and a round that was created is run and its run
\* returns.
FairDriver ==
    /\ WF_vars(CreateSession)
    /\ WF_vars(\E i \in DOMAIN sessions : RunLoop(i))
    /\ WF_vars(\E i \in DOMAIN sessions : RoundRunBegin(i))
    /\ WF_vars(\E i \in DOMAIN sessions, outcome \in {"ok", "failed"},
                  app \in AppAgents : RoundRunEnd(i, outcome, app))

\* Replays driven by run() alone, under a driver that does not stop of its
\* own accord.
SpecFollower == InitFollower /\ [][NextFollower]_vars /\ FairDriver

\* Every call of the factory over every listing of up to MaxEntries entries.
FactoryArguments ==
    [task : Tasks, mode : Modes, plan : PlanArgs, request : Requests,
     listing : DistinctSeqs(EntryPool, MaxEntries)]

InitFactory == InitWith(FactoryArguments)

NextFactory == CreateSession

\* The factory call alone.
SpecFactory == InitFactory /\ [][NextFactory]_vars

\* The utilities' inputs.  OutputDir exists, NewDir does not.
OutputDir == <<"d">>
NewDir == <<"n">>
OutputName == <<"o">>
OutputPaths ==
    {OutputName, join(OutputDir, OutputName), join(NewDir, OutputName),
     join(join(NewDir, <<"k">>), OutputName)}

DataFlat == [dict |-> <<[key |-> [str |-> "a"], value |-> [int |-> 1]]>>]
DataEmpty == [dict |-> <<>>]
DataNested ==
    [dict |-> <<[key |-> [str |-> "a"],
                 value |-> [list |-> <<[int |-> 1], [str |-> "b"]>>]],
                [key |-> [str |-> "b"], value |-> DataFlat]>>]
DataIntKey == [dict |-> <<[key |-> [int |-> 1], value |-> [str |-> "b"]]>>]
DataTuple ==
    [dict |-> <<[key |-> [str |-> "a"], value |-> [tuple |-> <<[int |-> 1]>>]]>>]
Data == {DataFlat, DataEmpty, DataNested, DataIntKey, DataTuple}

\* The archive, the directory unzip_file extracts it into, its one member,
\* and an archive path at which there is no file.
ZipPath == <<"z", ".", "p">>
ZipFolder == splitext_root(ZipPath)
MemberName == <<"x">>
MissingZip == <<"q", ".", "p">>
ArchiveTexts == {<<"A">>, <<"A", LF, "B">>, <<"A", CR, LF, "B">>}
StaleText == <<"B">>

\* What ZipFolder is before the call: absent, an empty directory, or a
\* directory an earlier extraction left an entry in (another file, a file of
\* the member's name, or a subdirectory).
SiblingStates == {"absent", "empty", "other", "same", "subdir"}

\* The file system before a utility call.
UtilsDisk(sibling, content, old) ==
    LET archive == WriteFile(<<>>, ZipPath,
                       [members |-> <<[name |-> MemberName, content |-> content]>>])
        stale == CASE sibling = "other" ->
                        WriteFile(archive, join(ZipFolder, <<"y">>), [text |-> StaleText])
                   [] sibling = "same" ->
                        WriteFile(archive, join(ZipFolder, MemberName), [text |-> StaleText])
                   [] OTHER -> archive
    IN  [dirs |-> {OutputDir}
                  \cup (IF sibling = "absent" THEN {} ELSE {ZipFolder})
                  \cup (IF sibling = "subdir" THEN {join(ZipFolder, <<"s">>)} ELSE {}),
         files |-> IF old
                   THEN WriteFile(stale, join(OutputDir, OutputName),
                                  [document |-> json_dump(DataEmpty)])
                   ELSE stale]

InitUtils ==
    /\ task = <<"t">>
    /\ mode = "normal"
    /\ plan = <<>>
    /\ request = ""
    /\ listing = <<>>
    /\ result = Pending
    /\ constructed = 0
    /\ sessions = <<>>
    /\ \E sibling \in SiblingStates, content \in ArchiveTexts, old \in BOOLEAN :
          disk = UtilsDisk(sibling, content, old)
    /\ call = NoCall

\* A caller invokes save_to_json(data, output_file_path).
SaveToJson(data, output_file_path) ==
    /\ call.status = "idle"
    /\ LET r == save_to_json(Started(disk), data, output_file_path)
       IN  /\ disk' = r.disk
           /\ call' = [op |-> "save_to_json",
                       status |-> IF r.error = "none" THEN "returned" ELSE "raised",
                       error |-> r.error,
                       data |-> data,
                       path |-> output_file_path]
    /\ UNCHANGED <<task, mode, plan, request, listing, result, constructed, sessions>>

\* The caller reads the saved file back with json.load.
ReadBack ==
    /\ call.op = "save_to_json"
    /\ call.status = "returned"
    /\ call' = [op |-> "json.load",
                status |-> "returned",
                error |-> "none",
                data |-> call.data,
                path |-> call.path,
                value |-> json_load(disk.files[call.path].document)]
    /\ UNCHANGED <<task, mode, plan, request, listing, result, constructed, sessions,
                   disk>>

\* A caller invokes unzip_and_read_file(file_path); os.listdir gives the
\* entries of the folder in one of the orders it may.
UnzipAndReadFile(file_path) ==
    /\ call.status = "idle"
    /\ LET unpacked == unzip_file_extract(Started(disk), file_path)
       IN  \E listed \in (IF unpacked.error = "none"
                           THEN listdir(unpacked.disk, splitext_root(file_path))
                           ELSE {<<>>}) :
              LET r == unzip_and_read_file(Started(disk), file_path, listed)
              IN  /\ disk' = r.disk
                  /\ call' = [op |-> "unzip_and_read_file",
                              status |-> IF r.error = "none" THEN "returned"
                                         ELSE "raised",
                              error |-> r.error,
                              path |-> file_path,
                              value |-> r.value]
    /\ UNCHANGED <<task, mode, plan, request, listing, result, constructed, sessions>>

NextUtils ==
    \/ \E data \in Data, output_file_path \in OutputPaths :
          SaveToJson(data, output_file_path)
    \/ ReadBack
    \/ \E file_path \in {ZipPath, MissingZip} : UnzipAndReadFile(file_path)

\* One call of a record_processor utility, and the reading back of what
\* save_to_json wrote.
SpecUtils == InitUtils /\ [][NextUtils]_vars

\* ------------------------------------------------------------- properties

\* The sessions that exist before and after a step.
Both == DOMAIN sessions \cap DOMAIN sessions'

\* C1: in every session, whatever its rounds' executions came to, the ids
\* of the registered rounds are exactly 0 .. total_rounds - 1, each round is
\* registered under its own id, and the ids were handed out in the order
\* 0, 1, 2, ... with none skipped and none used twice.
C1_RoundIdsContiguous ==
    \A i \in DOMAIN sessions :
        LET s == sessions[i]
        IN  /\ DOMAIN s.rounds = 0..(s.total_rounds - 1)
            /\ \A k \in DOMAIN s.rounds : s.rounds[k].id = k
            /\ s.created = [k \in 1..s.total_rounds |-> k - 1]

\* C1 witness: a replay has registered three rounds, and an earlier one of
\* them failed.
C1_Witness ==
    \E i \in DOMAIN sessions :
        /\ sessions[i].kind = "FollowerSession"
        /\ sessions[i].total_rounds = 3
        /\ sessions[i].rounds[1].status = "failed"

\* C2: in an interactive Session, once the continuation prompt has answered
\* is_complete, finish is true from then on, and every later
\* create_new_round call returns no round and registers nothing, whatever
\* the prompt answers to that call.
C2_CompleteIsFinal ==
    [][\A i \in Both :
          sessions[i].kind = "Session" =>
             /\ sessions'[i].complete_seen => sessions'[i].finish
             /\ (sessions[i].complete_seen
                   /\ sessions'[i].calls # sessions[i].calls) =>
                    /\ sessions'[i].returned = "None"
                    /\ sessions'[i].rounds = sessions[i].rounds]_vars

\* C2 witness: an interactive Session was finished by the prompt and
\* create_new_round has been called at least twice more since, all calls
\* but the registered rounds having returned no round.
C2_Witness ==
    \E i \in DOMAIN sessions :
        /\ sessions[i].kind = "Session"
        /\ sessions[i].complete_seen
        /\ sessions[i].calls >= sessions[i].total_rounds + 3

\* C3: in every session finish never goes back from true to false (so it
\* rises at most once), and total_rounds never decreases.
C3_FinishAndRoundsMonotone ==
    [][\A i \in Both :
          /\ sessions[i].finish => sessions'[i].finish
          /\ sessions'[i].total_rounds >= sessions[i].total_rounds]_vars

\* C3 witness: a finished interactive Session with two rounds on which
\* create_new_round has been called again after it finished.
C3_Witness ==
    \E i \in DOMAIN sessions :
        /\ sessions[i].kind = "Session"
        /\ sessions[i].finish
        /\ sessions[i].total_rounds = 2
        /\ sessions[i].calls = 4

\* C4: the next_request of a FollowerSession, seen through the
\* create_new_round call that makes it: if the plan reports task_finished it
\* sets finish, returns "" and leaves the cursor; otherwise with no round
\* registered it returns the plan's host-agent request, and with rounds
\* registered it returns the step under the cursor and advances the cursor
\* by one; and finish, once true, is true after every later call.
C4_FollowerNextRequest ==
    [][\A i \in Both :
          (/\ sessions[i].kind = "FollowerSession"
           /\ sessions'[i].calls = sessions[i].calls + 1) =>
             LET s == sessions[i]
                 n == sessions'[i]
                 pr == s.plan_reader
             IN  /\ s.finish => n.finish
                 /\ IF pr.cursor >= Len(pr.content.steps)
                    THEN /\ n.finish
                         /\ n.requested = ""
                         /\ n.plan_reader.cursor = pr.cursor
                    ELSE IF s.total_rounds = 0
                    THEN n.requested = pr.content.host_request
                    ELSE /\ n.requested = pr.content.steps[pr.cursor + 1]
                         /\ n.plan_reader.cursor = pr.cursor + 1]_vars

\* C4 witness: a replay of the two-step plan has served the host request and
\* both steps, has then been told the plan is finished, and has been asked
\* once more.
C4_Witness ==
    \E i \in DOMAIN sessions :
        /\ sessions[i].kind = "FollowerSession"
        /\ sessions[i].plan_reader.cursor = 2
        /\ sessions[i].finish
        /\ sessions[i].requested = ""
        /\ sessions[i].calls = 5

\* C5: an interactive Session created with a non-empty request never
\* invokes the first-request prompt, and the round registered under id 0
\* carries that request.
C5_InitRequestUsed ==
    \A i \in DOMAIN sessions :
        (sessions[i].kind = "Session" /\ request # "") =>
            /\ sessions[i].first_request_calls = 0
            /\ 0 \in DOMAIN sessions[i].rounds =>
                   sessions[i].rounds[0].request = request

\* C5 witness: a Session created with request "X" has registered round 0 and
\* a later round.
C5_Witness ==
    \E i \in DOMAIN sessions :
        /\ sessions[i].kind = "Session"
        /\ request = "X"
        /\ sessions[i].total_rounds >= 2

\* C6: an interactive Session created with an empty request has invoked the
\* first-request prompt not at all before its first create_new_round call
\* and exactly once ever after, and round 0 carries what that prompt
\* returned.
C6_FirstPromptOnce ==
    \A i \in DOMAIN sessions :
        (sessions[i].kind = "Session" /\ request = "") =>
            /\ sessions[i].first_request_calls =
                   (IF sessions[i].calls = 0 THEN 0 ELSE 1)
            /\ sessions[i].calls > 0 =>
                   /\ 0 \in DOMAIN sessions[i].rounds
                   /\ sessions[i].rounds[0].request =
                          sessions[i].first_request_value

\* C6 witness: a Session created without a request got "A" from the first
\* prompt and has since registered two more rounds.
C6_Witness ==
    \E i \in DOMAIN sessions :
        /\ sessions[i].kind = "Session"
        /\ request = ""
        /\ sessions[i].first_request_value = "A"
        /\ sessions[i].first_request_calls = 1
        /\ sessions[i].total_rounds = 3

\* C7: create_session with a mode other than "normal" and "follower" raises
\* the error that names the mode, returns no list, and runs no session
\* constructor.
C7_UnsupportedModeFails ==
    (result # Pending /\ mode \notin {"normal", "follower"}) =>
        /\ result.status = "raised"
        /\ result.error = [type |-> "ValueError", mode |-> mode]
        /\ sessions = <<>>
        /\ constructed = 0

\* C7 witness: create_session has been called with the mode "Normal".
C7_Witness == result # Pending /\ mode = "Normal"

\* What C8 promises of the list create_session returns: one session of the
\* given kind with id 0 and the task name as given.
OneSession(kind) ==
    /\ result.status = "returned"
    /\ Len(sessions) = 1
    /\ sessions[1].kind = kind
    /\ sessions[1].id = 0
    /\ sessions[1].task = task

\* C8 as stated: mode "normal" with any plan, and mode "follower" with any
\* plan that is not a directory, return exactly one session, a Session
\* respectively a FollowerSession, with id 0 and the task name unchanged.
C8_Original ==
    result # Pending =>
        /\ mode = "normal" => OneSession("Session")
        /\ (mode = "follower" /\ plan # PlanDir) => OneSession("FollowerSession")

\* C8 as amended: the same, for mode "follower" only when the plan is a file
\* that exists (it is one of the folder's entries).
C8_SingleSession ==
    result # Pending =>
        /\ mode = "normal" => OneSession("Session")
        /\ (/\ mode = "follower"
            /\ plan # PlanDir
            /\ \E j \in 1..Len(listing) : plan = PlanDir \o <<"/">> \o listing[j])
               => OneSession("FollowerSession")

\* C8 witness: create_session returned for mode "follower", the task "t/u"
\* and the plan file d/a.b.json.
C8_Witness ==
    /\ result.status = "returned"
    /\ mode = "follower"
    /\ task = <<"t", "/", "u">>
    /\ plan = <<"d", "/", "a", ".", "b", ".", "j", "s", "o", "n">>

\* The entries of the pool whose names end in ".json", each with its name
\* without the extension (a name that starts with its only dot has none).
Stem(name) ==
    CASE name = NameA -> <<"a">>
      [] name = NameB -> <<"b">>
      [] name = NameAB -> <<"a", ".", "b">>
      [] name = NameHidden -> <<".", "j", "s", "o", "n">>

\* C9: create_session in follower mode on the folder returns one
\* FollowerSession per entry whose name ends in ".json" and none for the
\* others; the session of the r-th such entry of the listing is the r-th of
\* the list, has id r - 1, the task name task/stem and the entry's path as
\* its plan file.
C9_BatchSessions ==
    (result # Pending /\ mode = "follower" /\ plan = PlanDir) =>
        LET J == {j \in 1..Len(listing) : listing[j] # NameTxt}
            Rank(j) == Cardinality({k \in J : k <= j})
        IN  /\ result.status = "returned"
            /\ Len(sessions) = Cardinality(J)
            /\ \A j \in J :
                   LET s == sessions[Rank(j)]
                   IN  /\ s.kind = "FollowerSession"
                       /\ s.id = Rank(j) - 1
                       /\ s.task = task \o <<"/">> \o Stem(listing[j])
                       /\ s.plan_reader.plan_file =
                              PlanDir \o <<"/">> \o listing[j]

\* C9 witness: the folder lists a plan, then a file that is no plan, then a
\* second plan, and two sessions were returned.
C9_Witness ==
    /\ result.status = "returned"
    /\ mode = "follower"
    /\ plan = PlanDir
    /\ Len(listing) = 3
    /\ listing[2] = NameTxt
    /\ Len(sessions) = 2

\* C10: two FollowerSessions over equal plans on which create_new_round has
\* been called equally often have registered the same round ids in the same
\* order with the same requests, got the same from the last call, and have
\* the same plan cursor and the same finish, whatever became of the rounds
\* each of them ran.
C10_ReplayReproducible ==
    \A i, j \in DOMAIN sessions :
        LET a == sessions[i]
            b == sessions[j]
        IN  (/\ a.kind = "FollowerSession"
             /\ b.kind = "FollowerSession"
             /\ a.plan_reader.content = b.plan_reader.content
             /\ a.calls = b.calls) =>
                /\ a.created = b.created
                /\ DOMAIN a.rounds = DOMAIN b.rounds
                /\ \A k \in DOMAIN a.rounds \cap DOMAIN b.rounds :
                       /\ a.rounds[k].id = b.rounds[k].id
                       /\ a.rounds[k].request = b.rounds[k].request
                /\ a.requested = b.requested
                /\ a.returned = b.returned
                /\ a.plan_reader.cursor = b.plan_reader.cursor
                /\ a.finish = b.finish

\* C10 witness: two replays of equal plans have each been called three
\* times; round 1 failed in one of them and succeeded in the other.
C10_Witness ==
    \E i, j \in DOMAIN sessions :
        /\ i # j
        /\ sessions[i].plan_reader.content = sessions[j].plan_reader.content
        /\ sessions[i].calls = 3
        /\ sessions[j].calls = 3
        /\ sessions[i].rounds[1].status = "failed"
        /\ sessions[j].rounds[1].status = "ok"

\* C11: in every session every round but the one created last has run to
\* its end, so a round is created only after the run of the round before it
\* has returned, and no two rounds are running at once.
C11_OneRoundAtATime ==
    \A i \in DOMAIN sessions :
        LET s == sessions[i]
        IN  /\ \A n \in 1..(Len(s.created) - 1) :
                   s.rounds[s.created[n]].status \in {"ok", "failed"}
            /\ Cardinality({k \in DOMAIN s.rounds :
                               s.rounds[k].status = "running"}) <= 1

\* C11 witness: the third round of a session is running, the two before it
\* having run to their ends.
C11_Witness ==
    \E i \in DOMAIN sessions :
        /\ sessions[i].total_rounds = 3
        /\ sessions[i].rounds[2].status = "running"
        /\ sessions[i].rounds[0].status = "ok"
        /\ sessions[i].rounds[1].status = "failed"

\* C14: in every session a create_new_round call that returns no round
\* leaves the registered rounds, total_rounds and every agent's state tag,
\* memory and request history as they were; and a call made after a call
\* that returned no round returns no round either.
C14_NoRoundIsNoOp ==
    [][\A i \in Both :
          sessions'[i].calls = sessions[i].calls + 1 =>
             /\ sessions'[i].returned = "None" =>
                    /\ sessions'[i].rounds = sessions[i].rounds
                    /\ sessions'[i].total_rounds = sessions[i].total_rounds
                    /\ sessions'[i].agents = sessions[i].agents
             /\ sessions[i].returned = "None" =>
                    sessions'[i].returned = "None"]_vars

\* C14 witness: a replay whose rounds have dirtied an agent has returned no
\* round on each of its last two calls.
C14_Witness ==
    \E i \in DOMAIN sessions :
        /\ sessions[i].kind = "FollowerSession"
        /\ sessions[i].returned = "None"
        /\ sessions[i].total_rounds = 2
        /\ sessions[i].calls = 4
        /\ sessions[i].agents[HostAgent].memory = "nonempty"

\* C15: in a FollowerSession the call that creates round 0 binds it to the
\* host agent and changes no agent; a call that creates a later round binds
\* it to the app agent that was active when the call was made and leaves
\* that agent with empty memory, an empty request history and the
\* continue-app-agent tag; no round after round 0 is bound to the host
\* agent.
C15_FollowerRoundAgents ==
    [][\A i \in Both :
          sessions[i].kind = "FollowerSession" =>
             /\ \A k \in DOMAIN sessions'[i].rounds :
                    k > 0 => sessions'[i].rounds[k].agent # HostAgent
             /\ (/\ sessions'[i].calls = sessions[i].calls + 1
                 /\ sessions'[i].returned = "round") =>
                    LET s == sessions[i]
                        n == sessions'[i]
                        round == n.rounds[s.total_rounds]
                    IN  IF s.total_rounds = 0
                        THEN /\ round.agent = HostAgent
                             /\ n.agents = s.agents
                        ELSE /\ round.agent = s.active_appagent
                             /\ round.agent \in AppAgents
                             /\ n.agents[round.agent] =
                                    [state |-> "ContinueAppAgentState",
                                     memory |-> "empty",
                                     requests |-> "empty"]]_vars

\* C15 witness: round 2 of a replay has just been created for the app agent
\* that ran round 1, whose memory and request history are empty again.
C15_Witness ==
    \E i \in DOMAIN sessions :
        /\ sessions[i].kind = "FollowerSession"
        /\ sessions[i].total_rounds = 3
        /\ sessions[i].rounds[2].status = "created"
        /\ sessions[i].rounds[2].agent = "app2"
        /\ sessions[i].rounds[1].agent = "app2"
        /\ sessions[i].rounds[1].status = "ok"
        /\ sessions[i].agents["app2"].memory = "empty"
        /\ sessions[i].agents["app2"].requests = "empty"

\* C16: in an interactive Session every call that returns a round has
\* registered it under id total_rounds, bound to the host agent, with the
\* request next_request returned in that call, and leaves the host agent
\* tagged with the continue-host-agent state.
C16_SessionRoundBinding ==
    [][\A i \in Both :
          (/\ sessions[i].kind = "Session"
           /\ sessions'[i].calls = sessions[i].calls + 1
           /\ sessions'[i].returned = "round") =>
             LET n == sessions'[i]
                 round == n.rounds[sessions[i].total_rounds]
             IN  /\ round.agent = HostAgent
                 /\ round.request = n.requested
                 /\ round.status = "created"
                 /\ n.agents[HostAgent].state = "ContinueHostAgentState"]_vars

\* C16 witness: the second round of a Session has just been created with
\* the request "A", after the host agent had run the first.
C16_Witness ==
    \E i \in DOMAIN sessions :
        /\ sessions[i].kind = "Session"
        /\ sessions[i].total_rounds = 2
        /\ sessions[i].rounds[0].status = "ok"
        /\ sessions[i].rounds[1].status = "created"
        /\ sessions[i].rounds[1].request = "A"
        /\ sessions[i].agents[HostAgent].state = "ContinueHostAgentState"

\* C17: an interactive Session has asked the experience prompt once if its
\* run() has returned and not at all otherwise; when it was asked the loop
\* was over, the last create_new_round call having returned no round and
\* every round having run to its end; and the experience has been saved
\* exactly if the prompt was asked and answered yes.
C17_ExperienceAskedOnce ==
    \A i \in DOMAIN sessions :
        LET s == sessions[i]
        IN  s.kind = "Session" =>
               /\ s.experience_asks = (IF s.pc = "done" THEN 1 ELSE 0)
               /\ s.experience_saved =
                      (s.experience_asks = 1 /\ s.experience_answer)
               /\ s.experience_asks > 0 =>
                      /\ s.returned = "None"
                      /\ \A k \in DOMAIN s.rounds :
                             s.rounds[k].status \in {"ok", "failed"}

\* C17 witness: a Session of two rounds has returned from run() after the
\* user declined to save the experience, and create_new_round has been
\* called on it once more.
C17_Witness ==
    \E i \in DOMAIN sessions :
        /\ sessions[i].kind = "Session"
        /\ sessions[i].pc = "done"
        /\ sessions[i].total_rounds = 2
        /\ sessions[i].calls = 4
        /\ sessions[i].experience_asks = 1
        /\ ~sessions[i].experience_answer
        /\ ~sessions[i].experience_saved

\* C18: the rounds of a FollowerSession carry the plan in order: round 0 the
\* host-agent request and round k the k-th step; there are never more than
\* one round per step and one for the host request; and once
\* create_new_round has returned no round, a plan of n >= 1 steps has made
\* exactly n + 1 rounds and a plan of no step has made none.
C18_OneRoundPerStep ==
    \A i \in DOMAIN sessions :
        LET s == sessions[i]
            steps == s.plan_reader.content.steps
        IN  s.kind = "FollowerSession" =>
               /\ \A k \in DOMAIN s.rounds :
                      /\ Len(steps) >= 1
                      /\ k \in 0..Len(steps)
                      /\ s.rounds[k].request =
                             (IF k = 0 THEN s.plan_reader.content.host_request
                              ELSE steps[k])
               /\ s.returned = "None" =>
                      s.total_rounds =
                          (IF Len(steps) = 0 THEN 0 ELSE Len(steps) + 1)

\* C18 witness: a replay of the two-step plan has been driven until
\* create_new_round returned no round, and has three rounds.
C18_Witness ==
    \E i \in DOMAIN sessions :
        /\ sessions[i].kind = "FollowerSession"
        /\ Len(sessions[i].plan_reader.content.steps) = 2
        /\ sessions[i].returned = "None"
        /\ sessions[i].total_rounds = 3
        /\ sessions[i].rounds[2].request = "s2"

\* C19: in an interactive Session a create_new_round call in or after which
\* the continuation prompt has answered is_complete registers no round, so
\* the text that came with the answer is bound to none; finish rises only
\* while a round is registered, and a finished Session has its round 0.
C19_CompleteTextUnbound ==
    [][\A i \in Both :
          sessions[i].kind = "Session" =>
             /\ (/\ sessions'[i].complete_seen
                 /\ sessions'[i].calls # sessions[i].calls) =>
                    sessions'[i].rounds = sessions[i].rounds
             /\ (~sessions[i].finish /\ sessions'[i].finish) =>
                    sessions[i].total_rounds > 0
             /\ sessions'[i].finish => 0 \in DOMAIN sessions'[i].rounds]_vars

\* C19 witness: a Session with the one round "X" has been finished by the
\* continuation prompt, which answered with the text "A".
C19_Witness ==
    \E i \in DOMAIN sessions :
        /\ sessions[i].kind = "Session"
        /\ sessions[i].complete_seen
        /\ sessions[i].finish
        /\ sessions[i].requested = "A"
        /\ sessions[i].total_rounds = 1
        /\ sessions[i].calls = 2
        /\ sessions[i].rounds[0].request = "X"

\* C20: under a driver that goes on while it can, every replay the factory
\* returned eventually has finish set and its run() returned; finish is set
\* only by a step taken between rounds, and a round that was created or is
\* running is never left behind: run() is then about to run it or running
\* it, and has not returned.
C20_ReplayTerminates ==
    /\ [](\A i \in DOMAIN sessions :
             \A k \in DOMAIN sessions[i].rounds :
                /\ sessions[i].rounds[k].status = "created" =>
                       sessions[i].pc = "run"
                /\ sessions[i].rounds[k].status = "running" =>
                       sessions[i].pc = "running")
    /\ [][\A i \in Both :
             sessions'[i].finish # sessions[i].finish =>
                sessions[i].pc \in {"loop", "done"}]_vars
    /\ (result.status = "returned") ~>
           (\A i \in DOMAIN sessions :
               sessions[i].finish /\ sessions[i].pc = "done")

\* C20 witness: both replays of a folder of two plans have finished and
\* returned from run(), the first after its two rounds, of which one
\* failed, the second, whose plan has no step, without a round.
C20_Witness ==
    /\ Len(sessions) = 2
    /\ \A i \in DOMAIN sessions :
          sessions[i].finish /\ sessions[i].pc = "done"
    /\ sessions[1].total_rounds = 2
    /\ sessions[1].rounds[1].status = "failed"
    /\ sessions[2].total_rounds = 0

RECURSIVE JsonNative(_)
\* The Python values that JSON has a form of its own for: int, str, list,
\* and dict with str keys.
JsonNative(v) ==
    CASE "int" \in DOMAIN v -> TRUE
      [] "str" \in DOMAIN v -> TRUE
      [] "list" \in DOMAIN v -> \A i \in 1..Len(v.list) : JsonNative(v.list[i])
      [] "tuple" \in DOMAIN v -> FALSE
      [] "dict" \in DOMAIN v ->
            \A i \in 1..Len(v.dict) :
               /\ "str" \in DOMAIN v.dict[i].key
               /\ JsonNative(v.dict[i].value)

\* C12: for every output path (with a missing parent directory, with an
\* existing one, or with no directory component) and every structured value,
\* here only the values JSON has a form for, save_to_json returns having
\* created the missing parent directories and written the file, and reading
\* the file back gives a value equal to the one saved.
C12_SaveRoundTrip ==
    /\ (call.op = "save_to_json" /\ JsonNative(call.data)) =>
          /\ call.status = "returned"
          /\ dirname(call.path) # <<>> => dirname(call.path) \in disk.dirs
          /\ call.path \in DOMAIN disk.files
    /\ (call.op = "json.load" /\ JsonNative(call.data)) =>
          call.value = call.data

\* save_to_json raised on a path with no directory component and wrote
\* nothing.
C12_Witness ==
    /\ call.op = "save_to_json"
    /\ call.path = OutputName
    /\ call.data = DataFlat
    /\ call.status = "raised"
    /\ call.error = "FileNotFoundError"
    /\ OutputName \notin DOMAIN disk.files

\* C13: for an archive holding exactly one file, whatever the sibling
\* directory was before (absent, empty, or holding entries of an earlier
\* extraction), unzip_and_read_file returns that file's text content, the
\* text being what reading in text mode makes of it.
C13_SingleFileContent ==
    (/\ call.op = "unzip_and_read_file"
     /\ call.path \in DOMAIN disk.files
     /\ Len(disk.files[call.path].members) = 1) =>
        /\ call.status = "returned"
        /\ call.value =
              universal_newlines(disk.files[call.path].members[1].content)

\* unzip_and_read_file returned the text of a file that an earlier
\* extraction had left in the sibling directory.
C13_Witness ==
    /\ call.op = "unzip_and_read_file"
    /\ call.path = ZipPath
    /\ call.status = "returned"
    /\ disk.files[ZipPath].members[1].content = <<"A">>
    /\ call.value = StaleText
    /\ disk.files[join(ZipFolder, MemberName)].text = <<"A">>

====
